---- MODULE Spec2Model ----
(***************************************************************************)
(* Model of LemolexAPI.wait_for_completion (examples/python-client.py),    *)
(* the polling loop that tracks one server-side download job, together     *)
(* with the HTTP helper _make_request it calls through                     *)
(* get_download_status and cancel_download.                                *)
(*                                                                         *)
(* The poller is one thread of control; pc is its position in the loop.    *)
(* The remote service is the environment: server is the record it holds    *)
(* for the tracked job.  A KeyboardInterrupt is asynchronous in Python: it *)
(* can be raised at any point of the main thread, so the model can deliver *)
(* it at every position of the try block.                                  *)
(***************************************************************************)
EXTENDS Naturals, Sequences, FiniteSets

(* ---------------------------------------------------------------- bounds *)

\* samples one call may take while the job is still pending
MaxSamples == 3
\* successive wait_for_completion calls in one behaviour
MaxCalls == 2
\* status queries of check_progress, rounds of the batch monitor
MaxPolls == 3

(* ------------------------------------------------------------ data model *)

JobIds == {"job-a", "job-b"}
Intervals == {1, 2}

PendingStatuses == {"starting", "downloading", "processing"}
TerminalStatuses == {"completed", "failed", "cancelled"}

\* A download record as the status endpoint returns it in result['data'].
\* hasError says whether the 'error' key is present in the dict.
Job(s, p, he, e) == [status |-> s, progress |-> p, hasError |-> he, error |-> e]

NoJob == Job("none", 0, FALSE, "")

PendingJobs ==
    { Job("starting", 0, FALSE, ""),
      Job("downloading", 30, FALSE, ""),
      Job("downloading", 70, FALSE, ""),
      Job("processing", 70, FALSE, "") }

TerminalJobs ==
    { Job("completed", 100, FALSE, "") }
    \cup { Job(s, 30, FALSE, "") : s \in {"failed", "cancelled"} }
    \cup { Job(s, 30, TRUE, "disk full") : s \in {"failed", "cancelled"} }

Jobs == PendingJobs \cup TerminalJobs

IsTerminal(j) == j.status \in TerminalStatuses

\* Position of a status in the job lifecycle; the service never regresses.
Rank(s) ==
    IF s = "starting" THEN 0
    ELSE IF s = "downloading" THEN 1
    ELSE IF s = "processing" THEN 2
    ELSE 3

\* dict.get(key, default) on the 'error' key
GetError(d, default) == IF d.hasError THEN d.error ELSE default

(* ----------------------------------------------------------- _make_request *)

\* What the HTTP exchange can do: answer 2xx with a JSON body, answer with an
\* error status (with or without a JSON body, with or without an 'error' key),
\* or not complete at all.
WireOk == [kind |-> "ok", json |-> TRUE, hasError |-> FALSE, error |-> ""]
WireFaults ==
    { [kind |-> "http", json |-> TRUE, hasError |-> TRUE, error |-> "not found"],
      [kind |-> "http", json |-> TRUE, hasError |-> FALSE, error |-> ""],
      [kind |-> "http", json |-> FALSE, hasError |-> FALSE, error |-> ""],
      [kind |-> "conn", json |-> FALSE, hasError |-> FALSE, error |-> ""] }
Wires == {WireOk} \cup WireFaults

\* _make_request letting a connection failure pass as an answer.
MakeRequestSwallowsConn(w) ==
    IF w.kind \in {"ok", "conn"}
    THEN [raised |-> FALSE, msg |-> ""]
    ELSE IF w.json
         THEN [raised |-> TRUE,
               msg |-> IF w.hasError THEN w.error ELSE "str(e)"]
         ELSE [raised |-> TRUE, msg |-> "HTTP status: text"]

\* _make_request: returns the parsed body on 2xx, raises Exception(msg) on any
\* requests.exceptions.RequestException.
MakeRequest(w) ==
    IF w.kind = "ok"
    THEN [raised |-> FALSE, msg |-> ""]
    ELSE IF w.kind = "http"
         THEN IF w.json
              THEN [raised |-> TRUE,
                    msg |-> IF w.hasError THEN w.error ELSE "str(e)"]
              ELSE [raised |-> TRUE, msg |-> "HTTP status: text"]
         ELSE [raised |-> TRUE, msg |-> "str(e)"]

\* The JSON bodies of a 2xx answer to the status query: success with the
\* job record, success without a data key, or success false / missing.
Body(ok, hd, he, e) == [success |-> ok, hasData |-> hd, hasError |-> he, error |-> e]
BodyOk == Body(TRUE, TRUE, FALSE, "")
BadBodies ==
    { Body(FALSE, FALSE, TRUE, "Download not found"),
      Body(FALSE, FALSE, FALSE, ""),
      Body(TRUE, FALSE, FALSE, "") }
Bodies == {BodyOk} \cup BadBodies

(* ------------------------------------------------------------ the outcome *)

\* How a call ended: type is what the caller sees (a returned record or the
\* class of the raised exception), site the statement that produced it.
Outcome(t, s, m, r) == [type |-> t, site |-> s, msg |-> m, rec |-> r]
NoOutcome == Outcome("none", "none", "", NoJob)

\* StatusCheck with the failed branch lost: a failed job keeps being polled.
StatusCheckFailedPolls(d) ==
    IF d.status = "completed"
    THEN Outcome("return", "completed", "", d)
    ELSE IF d.status = "cancelled"
    THEN Outcome("Exception", "cancelled", "Download was cancelled", NoJob)
    ELSE NoOutcome

\* StatusCheck reporting a cancelled job with the record's error message.
StatusCheckCancelledUsesError(d) ==
    IF d.status = "completed"
    THEN Outcome("return", "completed", "", d)
    ELSE IF d.status = "failed"
    THEN Outcome("Exception", "failed", GetError(d, "Download failed"), NoJob)
    ELSE IF d.status = "cancelled"
    THEN Outcome("Exception", "cancelled",
                 GetError(d, "Download was cancelled"), NoJob)
    ELSE NoOutcome

\* StatusCheck taking the processing phase for the end of the job.
StatusCheckProcessingEnds(d) ==
    IF d.status \in {"completed", "processing"}
    THEN Outcome("return", "completed", "", d)
    ELSE IF d.status = "failed"
    THEN Outcome("Exception", "failed", GetError(d, "Download failed"), NoJob)
    ELSE IF d.status = "cancelled"
    THEN Outcome("Exception", "cancelled", "Download was cancelled", NoJob)
    ELSE NoOutcome

\* Lines 144-149: what the status check does with a sampled record.
StatusCheck(d) ==
    IF d.status = "completed"
    THEN Outcome("return", "completed", "", d)
    ELSE IF d.status = "failed"
    THEN Outcome("Exception", "failed", GetError(d, "Download failed"), NoJob)
    ELSE IF d.status = "cancelled"
    THEN Outcome("Exception", "cancelled", "Download was cancelled", NoJob)
    ELSE NoOutcome

\* AfterSample with the callback reserved for samples still in progress.
AfterSampleSkipsFinal(cb, d) ==
    IF cb /\ d.status # "completed" THEN "sink" ELSE "check"

\* Lines 140-141: the callback is invoked for every sample when one was given.
AfterSample(cb, d) == IF cb THEN "sink" ELSE "check"

\* Positions of the poller inside wait_for_completion: "entry" is line 128,
\* before the loop; the others are inside the try block (lines 131-151).
TryBlock == {"top", "querying", "sink", "check", "sleeping"}
InCall == {"entry", "handler"} \cup TryBlock

\* Caught with the try block drawn around the sleep alone.
CaughtAroundSleep(at) == at = "sleeping"

\* Lines 131-153: the positions whose KeyboardInterrupt the handler catches.
Caught(at) == at \in TryBlock

\* HandlerOutcome without the inner try: a failing cancel request replaces
\* the interrupt.
HandlerOutcomeCancelEscapes(w) ==
    IF MakeRequest(w).raised
    THEN Outcome("Exception", "cancel", MakeRequest(w).msg, NoJob)
    ELSE Outcome("KeyboardInterrupt", "interrupt", "", NoJob)

\* Lines 155-159: the cancel request's failure is swallowed by the bare
\* except, the bare raise re-raises the KeyboardInterrupt.
HandlerOutcome(w) == Outcome("KeyboardInterrupt", "interrupt", "", NoJob)

(* ------------------------------------------------------------------ state *)

VARIABLES
    server,         \* the record the service holds for the tracked job
    download_id,    \* the job id the caller tracks
    on_progress,    \* TRUE iff the caller passed a progress callback
    check_interval, \* the sleep between samples
    pc,             \* position of the poller
    download,       \* result['data'] of the current sample
    inflight,       \* status queries sent and not yet answered or abandoned
    events,         \* what the current call did, in order
    queries,        \* ids of the status queries of the current call
    samples,        \* records sampled by the current call
    sunk,           \* records handed to on_progress by the current call
    sleeps,         \* durations of the sleeps of the current call
    cancels,        \* the cancel requests of the current call
    wire,           \* how the last answered status query went on the wire
    body,           \* the body of the last 2xx answer to a status query
    sinkRaised,     \* TRUE iff on_progress raised in the current call
    interruptedAt,  \* position at which the interrupt was delivered
    outcome,        \* how the current call ended
    startServer,    \* the server's record when the current call began
    prev,           \* summary of the previous finished call, kept when that
                    \* call began on an already terminal job
    ncalls          \* calls made so far

\* The state of the example polling loops (example2_download_video's
\* check_progress and example4_batch_downloads' monitor); the examples'
\* jobs are numbered as in the urls list.
VARIABLES
    example,        \* the example that runs: "example2", "example4" or "none"
    exServer,       \* the records the service holds for the examples' jobs
    ex2pc,          \* position of check_progress
    ex2data,        \* its last status['data']
    ex2polls,       \* status queries check_progress made
    download_ids,   \* example 4: the jobs that were started
    ex4pc,          \* position of the batch monitor
    ex4i,           \* index of its for loop
    completed,      \* its counter of finished jobs in this round
    ex4seen,        \* what it sampled in this round, NoJob for a failed query
    ex4rounds       \* rounds the monitor made

pollerVars == << server, download_id, on_progress, check_interval, pc, download,
                 inflight, events, queries, samples, sunk, sleeps, cancels,
                 wire, body, sinkRaised, interruptedAt, outcome, startServer,
                 prev, ncalls >>

exampleVars == << example, exServer, ex2pc, ex2data, ex2polls, download_ids,
                  ex4pc, ex4i, completed, ex4seen, ex4rounds >>

vars == << pollerVars, exampleVars >>

NoWire == [kind |-> "none", json |-> FALSE, hasError |-> FALSE, error |-> ""]
NoBody == Body(FALSE, FALSE, FALSE, "none")

\* No fault was injected into the current call: every status query was
\* answered 2xx with a successful body, the callback did not raise, no
\* interrupt was delivered.
Clean ==
    /\ wire \in {NoWire, WireOk}
    /\ body \in {NoBody, BodyOk}
    /\ ~sinkRaised
    /\ interruptedAt = "none"

NoPrev == [valid |-> FALSE, clean |-> FALSE, startServer |-> NoJob,
           outcome |-> NoOutcome, nqueries |-> 0, nsleeps |-> 0, ncancels |-> 0]

\* Example 4 starts one download per url (lines 349-352).
ExJobs == {1, 2}

Init ==
    /\ server \in Jobs
    /\ download_id \in JobIds
    /\ on_progress = FALSE
    /\ check_interval = 1
    /\ pc = "idle"
    /\ download = NoJob
    /\ inflight = 0
    /\ events = << >>
    /\ queries = << >>
    /\ samples = << >>
    /\ sunk = << >>
    /\ sleeps = << >>
    /\ cancels = << >>
    /\ wire = NoWire
    /\ body = NoBody
    /\ sinkRaised = FALSE
    /\ interruptedAt = "none"
    /\ outcome = NoOutcome
    /\ startServer = NoJob
    /\ prev = NoPrev
    /\ ncalls = 0
    /\ example = "none"
    /\ exServer = [k \in ExJobs |-> NoJob]
    /\ ex2pc = "poll"
    /\ ex2data = NoJob
    /\ ex2polls = 0
    /\ download_ids = << >>
    /\ ex4pc = "for"
    /\ ex4i = 1
    /\ completed = 0
    /\ ex4seen = << >>
    /\ ex4rounds = 0

(* ---------------------------------------------------------------- actions *)

\* The service moves the job on; it never regresses and a terminal record
\* never changes.
ServerAdvance(j) ==
    /\ ~IsTerminal(server)
    /\ j \in Jobs
    /\ j # server
    /\ Rank(j.status) >= Rank(server.status)
    /\ server' = j
    /\ UNCHANGED << download_id, on_progress, check_interval, pc, download,
                    inflight, events, queries, samples, sunk, sleeps, cancels,
                    wire, body, sinkRaised, interruptedAt, outcome,
                    startServer, prev, ncalls, exampleVars >>

\* The caller invokes wait_for_completion(download_id, on_progress, check_interval).
\* Nothing of the previous call is kept by the poller.
Call(cb, iv) ==
    /\ pc \in {"idle", "done"}
    /\ ncalls < MaxCalls
    /\ on_progress' = cb
    /\ check_interval' = iv
    /\ pc' = "entry"
    /\ download' = NoJob
    /\ events' = << >>
    /\ queries' = << >>
    /\ samples' = << >>
    /\ sunk' = << >>
    /\ sleeps' = << >>
    /\ cancels' = << >>
    /\ wire' = NoWire
    /\ body' = NoBody
    /\ sinkRaised' = FALSE
    /\ interruptedAt' = "none"
    /\ outcome' = NoOutcome
    /\ startServer' = server
    /\ prev' = IF pc = "done" /\ IsTerminal(startServer)
               THEN [valid |-> TRUE, clean |-> Clean, startServer |-> startServer,
                     outcome |-> outcome, nqueries |-> Len(queries),
                     nsleeps |-> Len(sleeps), ncancels |-> Len(cancels)]
               ELSE NoPrev
    /\ ncalls' = ncalls + 1
    /\ UNCHANGED << server, download_id, inflight, exampleVars >>

\* Line 128: the announcement before the loop.
Begin ==
    /\ pc = "entry"
    /\ pc' = "top"
    /\ UNCHANGED << server, download_id, on_progress, check_interval, download,
                    inflight, events, queries, samples, sunk, sleeps, cancels,
                    wire, body, sinkRaised, interruptedAt, outcome,
                    startServer, prev, ncalls, exampleVars >>

\* Line 132: get_download_status(download_id) sends the GET.
SendQuery ==
    /\ pc = "top"
    /\ Len(samples) < MaxSamples \/ IsTerminal(server)
    /\ pc' = "querying"
    /\ inflight' = inflight + 1
    /\ events' = Append(events, "query")
    /\ queries' = Append(queries, download_id)
    /\ UNCHANGED << server, download_id, on_progress, check_interval, download,
                    samples, sunk, sleeps, cancels, wire, body, sinkRaised,
                    interruptedAt, outcome, startServer, prev, ncalls, exampleVars >>

\* RecvQuery without the test of the success flag: result['data'] is read
\* from whatever body came back.
RecvQueryIgnoresSuccess(w, b) ==
    /\ pc = "querying"
    /\ inflight' = inflight - 1
    /\ wire' = w
    /\ IF MakeRequest(w).raised
       THEN /\ outcome' = Outcome("Exception", "transport", MakeRequest(w).msg, NoJob)
            /\ pc' = "done"
            /\ body' = NoBody
            /\ UNCHANGED << download, samples >>
       ELSE IF ~b.hasData
       THEN /\ outcome' = Outcome("KeyError", "nodata", "data", NoJob)
            /\ pc' = "done"
            /\ body' = b
            /\ UNCHANGED << download, samples >>
       ELSE /\ download' = server
            /\ samples' = Append(samples, server)
            /\ pc' = AfterSample(on_progress, server)
            /\ body' = b
            /\ UNCHANGED outcome
    /\ UNCHANGED << server, download_id, on_progress, check_interval, events,
                    queries, sunk, sleeps, cancels, sinkRaised, interruptedAt,
                    startServer, prev, ncalls, exampleVars >>

\* Lines 132-140: the answer arrives; _make_request raises or returns the
\* body, the success flag is tested, result['data'] is read.
RecvQuery(w, b) ==
    /\ pc = "querying"
    /\ inflight' = inflight - 1
    /\ wire' = w
    /\ IF MakeRequest(w).raised
       THEN /\ outcome' = Outcome("Exception", "transport", MakeRequest(w).msg, NoJob)
            /\ pc' = "done"
            /\ body' = NoBody
            /\ UNCHANGED << download, samples >>
       ELSE IF ~b.success
       THEN /\ outcome' = Outcome("Exception", "unsuccessful",
                                  GetError(b, "Unknown error"), NoJob)
            /\ pc' = "done"
            /\ body' = b
            /\ UNCHANGED << download, samples >>
       ELSE IF ~b.hasData
       THEN /\ outcome' = Outcome("KeyError", "nodata", "data", NoJob)
            /\ pc' = "done"
            /\ body' = b
            /\ UNCHANGED << download, samples >>
       ELSE /\ download' = server
            /\ samples' = Append(samples, server)
            /\ pc' = AfterSample(on_progress, server)
            /\ body' = b
            /\ UNCHANGED outcome
    /\ UNCHANGED << server, download_id, on_progress, check_interval, events,
                    queries, sunk, sleeps, cancels, sinkRaised, interruptedAt,
                    startServer, prev, ncalls, exampleVars >>

\* CallSink with the callback guarded by a try that drops what it raises.
CallSinkSuppresses(raises) ==
    /\ pc = "sink"
    /\ events' = Append(events, "sink")
    /\ sunk' = Append(sunk, download)
    /\ sinkRaised' = raises
    /\ pc' = "check"
    /\ UNCHANGED << server, download_id, on_progress, check_interval, download,
                    inflight, queries, samples, sleeps, cancels, wire, body,
                    interruptedAt, outcome, startServer, prev, ncalls, exampleVars >>

\* Line 141: on_progress(download); the callback returns or raises, and
\* what it raises leaves the call as it is.
CallSink(raises) ==
    /\ pc = "sink"
    /\ events' = Append(events, "sink")
    /\ sunk' = Append(sunk, download)
    /\ sinkRaised' = raises
    /\ IF raises
       THEN /\ outcome' = Outcome("SinkError", "sink", "sink raised", NoJob)
            /\ pc' = "done"
       ELSE /\ pc' = "check"
            /\ UNCHANGED outcome
    /\ UNCHANGED << server, download_id, on_progress, check_interval, download,
                    inflight, queries, samples, sleeps, cancels, wire, body,
                    interruptedAt, startServer, prev, ncalls, exampleVars >>

\* CheckStatus with the sleep moved ahead of the status test.
CheckStatusSleepsFirst ==
    /\ pc = "check"
    /\ events' = Append(Append(events, "sleep"), "check")
    /\ sleeps' = Append(sleeps, check_interval)
    /\ IF StatusCheck(download) # NoOutcome
       THEN /\ outcome' = StatusCheck(download)
            /\ pc' = "done"
       ELSE /\ pc' = "sleeping"
            /\ UNCHANGED outcome
    /\ UNCHANGED << server, download_id, on_progress, check_interval, download,
                    inflight, queries, samples, sunk, cancels, wire, body,
                    sinkRaised, interruptedAt, startServer, prev, ncalls, exampleVars >>

\* CheckStatus inside a try/finally that releases the job: a cancel request
\* goes out whenever the status test raises.
CheckStatusCancelsOnRaise ==
    /\ pc = "check"
    /\ IF StatusCheck(download) # NoOutcome
       THEN /\ outcome' = StatusCheck(download)
            /\ pc' = "done"
            /\ IF StatusCheck(download).type = "Exception"
               THEN /\ events' = Append(Append(events, "check"), "cancel")
                    /\ cancels' = Append(cancels, [id |-> download_id,
                                                   raised |-> FALSE])
               ELSE /\ events' = Append(events, "check")
                    /\ UNCHANGED cancels
            /\ UNCHANGED sleeps
       ELSE /\ pc' = "sleeping"
            /\ events' = Append(Append(events, "check"), "sleep")
            /\ sleeps' = Append(sleeps, check_interval)
            /\ UNCHANGED << outcome, cancels >>
    /\ UNCHANGED << server, download_id, on_progress, check_interval, download,
                    inflight, queries, samples, sunk, wire, body,
                    sinkRaised, interruptedAt, startServer, prev, ncalls, exampleVars >>

\* Lines 144-151: return, raise, or start time.sleep(check_interval).
CheckStatus ==
    /\ pc = "check"
    /\ IF StatusCheck(download) # NoOutcome
       THEN /\ outcome' = StatusCheck(download)
            /\ pc' = "done"
            /\ events' = Append(events, "check")
            /\ UNCHANGED sleeps
       ELSE /\ pc' = "sleeping"
            /\ events' = Append(Append(events, "check"), "sleep")
            /\ sleeps' = Append(sleeps, check_interval)
            /\ UNCHANGED outcome
    /\ UNCHANGED << server, download_id, on_progress, check_interval, download,
                    inflight, queries, samples, sunk, cancels, wire, body,
                    sinkRaised, interruptedAt, startServer, prev, ncalls, exampleVars >>

\* Line 151: time.sleep returns, the loop starts over.
Wake ==
    /\ pc = "sleeping"
    /\ pc' = "top"
    /\ UNCHANGED << server, download_id, on_progress, check_interval, download,
                    inflight, events, queries, samples, sunk, sleeps, cancels,
                    wire, body, sinkRaised, interruptedAt, outcome,
                    startServer, prev, ncalls, exampleVars >>

\* A KeyboardInterrupt is raised in the poller's thread, at whatever
\* statement it is executing.  Inside the try block line 153 catches it; a
\* query in flight is abandoned.  Before the loop it leaves the call at once.
Interrupt ==
    /\ pc \in {"entry"} \cup TryBlock
    /\ interruptedAt' = pc
    /\ inflight' = 0
    /\ IF Caught(pc)
       THEN /\ pc' = "handler"
            /\ UNCHANGED outcome
       ELSE /\ pc' = "done"
            /\ outcome' = Outcome("KeyboardInterrupt", "uncaught", "", NoJob)
    /\ UNCHANGED << server, download_id, on_progress, check_interval, download,
                    events, queries, samples, sunk, sleeps, cancels, wire, body,
                    sinkRaised, startServer, prev, ncalls, exampleVars >>

\* Lines 154-159: cancel_download(download_id) goes through _make_request
\* and succeeds or raises; either way the interrupt is re-raised.
CancelDownload(w) ==
    /\ pc = "handler"
    /\ events' = Append(events, "cancel")
    /\ cancels' = Append(cancels, [id |-> download_id,
                                   raised |-> MakeRequest(w).raised])
    /\ outcome' = HandlerOutcome(w)
    /\ pc' = "done"
    /\ UNCHANGED << server, download_id, on_progress, check_interval, download,
                    inflight, queries, samples, sunk, sleeps, wire, body,
                    sinkRaised, interruptedAt, startServer, prev, ncalls, exampleVars >>

\* The steps the poller's thread takes by itself.
PollerStep ==
    \/ Begin
    \/ SendQuery
    \/ \E w \in Wires, b \in Bodies : RecvQuery(w, b)
    \/ \E r \in BOOLEAN : CallSink(r)
    \/ CheckStatus
    \/ Wake
    \/ \E w \in Wires : CancelDownload(w)

Next ==
    \/ \E j \in Jobs : ServerAdvance(j)
    \/ \E cb \in BOOLEAN, iv \in Intervals : Call(cb, iv)
    \/ PollerStep
    \/ Interrupt

Spec == Init /\ [][Next]_vars

\* The poller's thread keeps running: whatever step it is at is eventually
\* taken.  Nothing obliges the service to move or an interrupt to arrive.
\* The job id plays no part in whether the loop ends: one id is followed.
LiveInit == Init /\ download_id = "job-a"

LiveSpec == LiveInit /\ [][Next]_vars /\ WF_vars(PollerStep)

(* ------------------------------------------------- the example loops *)

\* The examples run on their own: the poller of wait_for_completion is not
\* in use, the jobs have just been started, and which of them example 4
\* managed to start (lines 357-366) is open.
ExInit ==
    /\ server = Job("starting", 0, FALSE, "")
    /\ download_id = "job-a"
    /\ on_progress = FALSE
    /\ check_interval = 1
    /\ pc = "idle"
    /\ download = NoJob
    /\ inflight = 0
    /\ events = << >>
    /\ queries = << >>
    /\ samples = << >>
    /\ sunk = << >>
    /\ sleeps = << >>
    /\ cancels = << >>
    /\ wire = NoWire
    /\ body = NoBody
    /\ sinkRaised = FALSE
    /\ interruptedAt = "none"
    /\ outcome = NoOutcome
    /\ startServer = NoJob
    /\ prev = NoPrev
    /\ ncalls = 0
    /\ example \in {"example2", "example4"}
    /\ exServer = [k \in ExJobs |-> Job("starting", 0, FALSE, "")]
    /\ ex2pc = "poll"
    /\ ex2data = NoJob
    /\ ex2polls = 0
    /\ download_ids \in (IF example = "example4"
                         THEN {<< >>, << 1 >>, << 2 >>, << 1, 2 >>}
                         ELSE {<< >>})
    /\ ex4pc = "for"
    /\ ex4i = 1
    /\ completed = 0
    /\ ex4seen = << >>
    /\ ex4rounds = 0

\* The service moves one of the examples' jobs on.
ExServerAdvance(k, j) ==
    /\ example # "none"
    /\ ~IsTerminal(exServer[k])
    /\ j \in Jobs
    /\ j # exServer[k]
    /\ Rank(j.status) >= Rank(exServer[k].status)
    /\ exServer' = [exServer EXCEPT ![k] = j]
    /\ UNCHANGED << pollerVars, example, ex2pc, ex2data, ex2polls,
                    download_ids, ex4pc, ex4i, completed, ex4seen, ex4rounds >>

\* Lines 272-287, one turn of check_progress: query the job, read
\* status['data'], break on completed or failed, otherwise sleep.  What the
\* query raises, and the KeyError of a body without data, leave the loop
\* for the handler of line 291.
Ex2Poll(w, b) ==
    /\ example = "example2"
    /\ ex2pc = "poll"
    /\ ex2polls < MaxPolls
    /\ ex2polls' = ex2polls + 1
    /\ IF MakeRequest(w).raised \/ ~b.hasData
       THEN /\ ex2pc' = "raised"
            /\ UNCHANGED ex2data
       ELSE /\ ex2data' = exServer[1]
            /\ ex2pc' = IF exServer[1].status = "completed" THEN "done"
                        ELSE IF exServer[1].status = "failed" THEN "done"
                        ELSE "sleeping"
    /\ UNCHANGED << pollerVars, example, exServer, download_ids, ex4pc, ex4i,
                    completed, ex4seen, ex4rounds >>

\* Line 287: time.sleep(2) returns.
Ex2Wake ==
    /\ example = "example2"
    /\ ex2pc = "sleeping"
    /\ ex2pc' = "poll"
    /\ UNCHANGED << pollerVars, example, exServer, ex2data, ex2polls,
                    download_ids, ex4pc, ex4i, completed, ex4seen, ex4rounds >>

\* Lines 373-383, one turn of the for loop: query the job and count it when
\* its status is completed, failed or cancelled; an exception is printed
\* and the loop goes on.
Ex4Poll(w, b) ==
    /\ example = "example4"
    /\ ex4pc = "for"
    /\ ex4i <= Len(download_ids)
    /\ ex4i' = ex4i + 1
    /\ IF MakeRequest(w).raised \/ ~b.hasData
       THEN /\ ex4seen' = Append(ex4seen, NoJob)
            /\ UNCHANGED completed
       ELSE /\ ex4seen' = Append(ex4seen, exServer[download_ids[ex4i]])
            /\ completed' = IF exServer[download_ids[ex4i]].status
                                 \in {"completed", "failed", "cancelled"}
                            THEN completed + 1
                            ELSE completed
    /\ UNCHANGED << pollerVars, example, exServer, ex2pc, ex2data, ex2polls,
                    download_ids, ex4pc, ex4rounds >>

\* Lines 385-388: after the for loop, sleep when a job is left, else break.
Ex4EndRound ==
    /\ example = "example4"
    /\ ex4pc = "for"
    /\ ex4i > Len(download_ids)
    /\ ex4pc' = IF completed < Len(download_ids) THEN "sleeping" ELSE "done"
    /\ UNCHANGED << pollerVars, example, exServer, ex2pc, ex2data, ex2polls,
                    download_ids, ex4i, completed, ex4seen, ex4rounds >>

\* Lines 386 and 371-373: time.sleep(3) returns and the next round begins
\* with the counter at zero.
Ex4Wake ==
    /\ example = "example4"
    /\ ex4pc = "sleeping"
    /\ ex4rounds < MaxPolls
    /\ ex4rounds' = ex4rounds + 1
    /\ ex4pc' = "for"
    /\ ex4i' = 1
    /\ completed' = 0
    /\ ex4seen' = << >>
    /\ UNCHANGED << pollerVars, example, exServer, ex2pc, ex2data, ex2polls,
                    download_ids >>

ExNext ==
    \/ \E k \in ExJobs, j \in Jobs : ExServerAdvance(k, j)
    \/ \E w \in Wires, b \in Bodies : Ex2Poll(w, b)
    \/ Ex2Wake
    \/ \E w \in Wires, b \in Bodies : Ex4Poll(w, b)
    \/ Ex4EndRound
    \/ Ex4Wake

ExampleSpec == ExInit /\ [][ExNext]_vars

(* ------------------------------------------------------------- shorthands *)

LastSample == samples[Len(samples)]
LastEvent == events[Len(events)]


(* ----------------------------------------------------------------- claims *)

\* C1: a call with a progress callback that returns has handed the callback
\* exactly the sampled records, one per sample and in sample order; every
\* sample but the last was pending, the last is completed and is the record
\* returned.  Without a callback too, a call returns only on a completed
\* last sample.
SinkOncePerSampleThenReturn ==
    (pc = "done" /\ outcome.type = "return") =>
        /\ Len(samples) >= 1
        /\ LastSample.status = "completed"
        /\ outcome.rec = LastSample
        /\ \A i \in 1..(Len(samples) - 1) : samples[i].status \in PendingStatuses
        /\ on_progress => sunk = samples
        /\ Len(queries) = Len(samples)

\* The spec's example: starting, downloading 30%, downloading 70%, completed.
SinkOncePerSampleWitness ==
    /\ pc = "done"
    /\ on_progress
    /\ outcome.type = "return"
    /\ sunk = << Job("starting", 0, FALSE, ""), Job("downloading", 30, FALSE, ""),
                 Job("downloading", 70, FALSE, ""), Job("completed", 100, FALSE, "") >>

\* C2: once a sample has status failed, the poller only hands it to the
\* callback and checks it: no further query, sleep or callback follows, and
\* unless the callback raised or an interrupt arrived the call ends raising
\* Exception with the record's error field (or 'Download failed') after one
\* callback invocation for that sample and no cancel request.
FailedSampleRaisesJobFailed ==
    (Len(samples) >= 1 /\ LastSample.status = "failed") =>
        /\ pc \in {"sink", "check", "handler", "done"}
        /\ Len(queries) = Len(samples)
        /\ Len(sleeps) = Len(samples) - 1
        /\ Len(sunk) <= Len(samples)
        /\ (pc = "done" /\ ~sinkRaised /\ interruptedAt = "none") =>
              /\ outcome = Outcome("Exception", "failed",
                                   IF LastSample.hasError THEN LastSample.error
                                   ELSE "Download failed", NoJob)
              /\ on_progress => sunk = samples
              /\ LastEvent = "check"
              /\ cancels = << >>

FailedSampleWitness ==
    /\ pc = "done"
    /\ on_progress
    /\ Len(samples) = 2
    /\ LastSample = Job("failed", 30, TRUE, "disk full")
    /\ outcome.msg = "disk full"
    /\ sunk = samples

\* C3: once a sample has status cancelled, no further query or sleep
\* follows, and unless the callback raised or an interrupt arrived the call
\* ends raising Exception('Download was cancelled'), whether the record has
\* an error field or not.
CancelledSampleRaisesJobCancelled ==
    (Len(samples) >= 1 /\ LastSample.status = "cancelled") =>
        /\ pc \in {"sink", "check", "handler", "done"}
        /\ Len(queries) = Len(samples)
        /\ Len(sleeps) = Len(samples) - 1
        /\ (pc = "done" /\ ~sinkRaised /\ interruptedAt = "none") =>
              /\ outcome = Outcome("Exception", "cancelled",
                                   "Download was cancelled", NoJob)
              /\ LastEvent = "check"
              /\ cancels = << >>

CancelledSampleWitness ==
    /\ pc = "done"
    /\ Len(samples) = 2
    /\ LastEvent = "check"
    /\ LastSample = Job("cancelled", 30, TRUE, "disk full")
    /\ outcome.type = "Exception"

\* C4: when a status query fails on the wire the call is over at once,
\* raising the transport error: that query was the last one and was made
\* once, the callback saw only the earlier samples (none when the first
\* query failed), and no sleep or cancel request follows.
TransportErrorPropagates ==
    (pc \in InCall \cup {"done"} /\ wire \in WireFaults) =>
        /\ pc = "done"
        /\ outcome.type = "Exception"
        /\ outcome.site = "transport"
        /\ outcome.msg = (IF wire.kind = "http" /\ wire.json /\ wire.hasError
                          THEN wire.error
                          ELSE IF wire.kind = "http" /\ ~wire.json
                          THEN "HTTP status: text"
                          ELSE "str(e)")
        /\ LastEvent = "query"
        /\ Len(queries) = Len(samples) + 1
        /\ Len(sleeps) = Len(samples)
        /\ sunk = (IF on_progress THEN samples ELSE << >>)
        /\ cancels = << >>
        /\ inflight = 0

\* A connection failure on the first query, with a callback given.
TransportErrorWitness ==
    /\ pc = "done"
    /\ on_progress
    /\ wire.kind = "conn"
    /\ Len(queries) = 1
    /\ sunk = << >>
    /\ outcome.site = "transport"

\* C5: a call interrupted while sleeping ends raising KeyboardInterrupt
\* after exactly one cancel request, for the tracked job id, as its last
\* act; so it does when the cancel request fails.
InterruptWhileSleepingCancelsOnce ==
    (interruptedAt = "sleeping") =>
        /\ pc \in {"handler", "done"}
        /\ pc = "handler" => cancels = << >>
        /\ pc = "done" =>
              /\ Len(cancels) = 1
              /\ cancels[1].id = download_id
              /\ LastEvent = "cancel"
              /\ outcome.type = "KeyboardInterrupt"
              /\ Len(queries) = Len(sleeps)

InterruptWhileSleepingWitness ==
    /\ pc = "done"
    /\ interruptedAt = "sleeping"
    /\ Len(cancels) = 1
    /\ cancels[1].raised
    /\ outcome.type = "KeyboardInterrupt"

\* C6: a call that begins on an already terminal job makes one status
\* query at most, never sleeps and sends no cancel request unless
\* interrupted; when no fault is injected it makes exactly one query, and
\* its outcome is the one the previous such call on the same record had.
TerminalJobIdempotent ==
    (pc \in InCall \cup {"done"} /\ IsTerminal(startServer)) =>
        /\ Len(queries) <= 1
        /\ sleeps = << >>
        /\ interruptedAt = "none" => cancels = << >>
        /\ (pc = "done" /\ Clean) =>
              /\ Len(queries) = 1
              /\ outcome.site \in TerminalStatuses
              /\ (prev.valid /\ prev.clean) =>
                    /\ prev.startServer = startServer
                    /\ prev.outcome = outcome
                    /\ prev.nqueries = 1
                    /\ prev.nsleeps = 0
                    /\ prev.ncancels = 0

TerminalJobIdempotentWitness ==
    /\ pc = "done"
    /\ Clean
    /\ prev.valid
    /\ prev.clean
    /\ startServer = Job("failed", 30, TRUE, "disk full")
    /\ outcome.msg = "disk full"
    /\ ncalls = 2

\* C7 as stated: a cancel request is sent only for an interrupt delivered
\* between samples (during the sleep or before the next query is sent),
\* never for one delivered while a status query is in flight.
CancellationOnlyBetweenSamples ==
    cancels # << >> => interruptedAt \in {"sleeping", "top"}

\* C7 amended: an interrupt delivered anywhere in the loop body, also while
\* a status query is in flight, takes effect there: the query is no longer
\* in flight, and the call ends raising KeyboardInterrupt after exactly one
\* cancel request for the tracked job id.
InterruptTakesEffectAnywhereInLoop ==
    (interruptedAt \in TryBlock) =>
        /\ inflight = 0
        /\ pc \in {"handler", "done"}
        /\ pc = "handler" => cancels = << >>
        /\ pc = "done" =>
              /\ Len(cancels) = 1
              /\ cancels[1].id = download_id
              /\ LastEvent = "cancel"
              /\ outcome.type = "KeyboardInterrupt"

InterruptMidQueryWitness ==
    /\ pc = "done"
    /\ interruptedAt = "querying"
    /\ Len(queries) = Len(samples) + 1
    /\ Len(cancels) = 1
    /\ outcome.type = "KeyboardInterrupt"

\* C8, safety half: a call into which no fault was injected ends only on a
\* terminal sample.
EndsOnlyOnTerminalSample ==
    (pc = "done" /\ Clean) => (Len(samples) >= 1 /\ IsTerminal(LastSample))

\* C8: a call ends only on a terminal sample, an interrupt or an error; and
\* once the service's record is terminal (it then stays so), a call in
\* progress eventually ends.
Termination ==
    /\ []EndsOnlyOnTerminalSample
    /\ (pc \in InCall /\ IsTerminal(server)) ~> (pc = "done")

\* A call that polled a pending job as long as the bound allows and ended
\* on the terminal sample that followed.
TerminationWitness ==
    /\ pc = "done"
    /\ Clean
    /\ Len(samples) = MaxSamples + 1
    /\ Len(sleeps) = MaxSamples
    /\ LastSample.status = "cancelled"

\* C9: when the callback raises, the call is over at once with that very
\* error: the callback invocation is the last event (no status check for
\* that sample), and no query, sleep, callback or cancel request follows.
SinkErrorPropagates ==
    sinkRaised =>
        /\ pc = "done"
        /\ outcome = Outcome("SinkError", "sink", "sink raised", NoJob)
        /\ LastEvent = "sink"
        /\ sunk = samples
        /\ Len(queries) = Len(samples)
        /\ Len(sleeps) = Len(samples) - 1
        /\ cancels = << >>

\* The callback raises on a completed sample: the call does not return it.
SinkErrorWitness ==
    /\ sinkRaised
    /\ pc = "done"
    /\ Len(samples) = 2
    /\ LastSample.status = "completed"
    /\ outcome.type = "SinkError"

\* C10: the events of a call follow the cycle query, callback (when given),
\* check, sleep: the first event is a query (nothing but the cancel request
\* of a call interrupted at once can take its place, and a cancel request
\* is always the last event); a later query comes right
\* after a sleep and a sleep right after the check of a pending sample, so
\* exactly one sleep, of check_interval, lies between consecutive queries;
\* at most one status query is in flight, and only while the poller waits
\* for its answer.
EventOrder ==
    /\ events # << >> => events[1] \in {"query", "cancel"}
    /\ \A i \in 1..Len(events) : events[i] = "cancel" => i = Len(events)
    /\ \A i \in 2..Len(events) :
          /\ events[i] = "query" => events[i-1] = "sleep"
          /\ events[i] = "sleep" => events[i-1] = "check"
          /\ events[i] = "check" =>
                events[i-1] = (IF on_progress THEN "sink" ELSE "query")
          /\ events[i] = "sink" => (on_progress /\ events[i-1] = "query")
    /\ \A k \in 1..Len(sleeps) :
          /\ sleeps[k] = check_interval
          /\ k <= Len(samples)
          /\ ~IsTerminal(samples[k])
    /\ Len(queries) - Len(sleeps) \in {0, 1}
    /\ inflight \in {0, 1}
    /\ inflight = 1 <=> pc = "querying"

EventOrderWitness ==
    /\ pc = "done"
    /\ ~on_progress
    /\ check_interval = 2
    /\ events = << "query", "check", "sleep", "query", "check", "sleep",
                   "query", "check" >>
    /\ sleeps = << 2, 2 >>

\* The ways out of a call that raise from inside the loop.
UnwindSites == {"interrupt", "transport", "failed", "cancelled", "sink"}

\* C11 as stated: a call that left the loop raising (interrupt, transport
\* error, callback error, failed or cancelled job) sent a cancel request
\* on its way out.
CancelOnEveryUnwind ==
    (pc = "done" /\ outcome.site \in UnwindSites) => Len(cancels) = 1

\* C11 amended: only the interrupt path releases the job.  A call that ends
\* on a caught interrupt sent exactly one cancel request, whose failure
\* does not show, and raises the interrupt; a call that ends on a transport
\* error, a callback error, a failed or a cancelled job sent no cancel
\* request and raises that error.
CancelOnInterruptOnly ==
    (pc = "done" /\ outcome.site \in UnwindSites) =>
        /\ outcome.site = "interrupt" =>
              /\ interruptedAt \in TryBlock
              /\ Len(cancels) = 1
              /\ outcome.type = "KeyboardInterrupt"
        /\ outcome.site # "interrupt" =>
              /\ cancels = << >>
              /\ LastEvent # "cancel"
              /\ outcome.type = (IF outcome.site = "sink" THEN "SinkError"
                                 ELSE "Exception")

\* A call with a callback that ended on a failed job without releasing it.
NoCancelOnFailedWitness ==
    /\ pc = "done"
    /\ on_progress
    /\ outcome.site = "failed"
    /\ Len(samples) = 3
    /\ cancels = << >>

\* C12: when a status query is answered 2xx with a body whose success flag
\* is false (or missing, which the test reads alike), the call is over at
\* once raising Exception with the body's error field, 'Unknown error'
\* when it has none: the query is the last event, the data field is not
\* read (no new sample, download as it was), the callback saw only the
\* earlier samples, and no sleep or cancel request follows.
UnsuccessfulAnswerRaises ==
    (body \in BadBodies /\ ~body.success) =>
        /\ pc = "done"
        /\ outcome = Outcome("Exception", "unsuccessful",
                             IF body.hasError THEN body.error ELSE "Unknown error",
                             NoJob)
        /\ LastEvent = "query"
        /\ Len(queries) = Len(samples) + 1
        /\ Len(sleeps) = Len(samples)
        /\ download = (IF samples = << >> THEN NoJob ELSE LastSample)
        /\ sunk = (IF on_progress THEN samples ELSE << >>)
        /\ cancels = << >>

\* The second answer has no success flag and no error field.
UnsuccessfulAnswerWitness ==
    /\ pc = "done"
    /\ on_progress
    /\ body = Body(FALSE, FALSE, FALSE, "")
    /\ outcome.msg = "Unknown error"
    /\ Len(queries) = 2
    /\ Len(sunk) = 1

\* C13: an example loop that goes on to sleep has a tracked job left whose
\* sample was not terminal: check_progress after a sample of its job, the
\* batch monitor after a round in which every query was answered.
ExamplesStopOnTerminal ==
    /\ ex2pc = "sleeping" => ~IsTerminal(ex2data)
    /\ (ex4pc = "sleeping" /\ \A i \in 1..Len(ex4seen) : ex4seen[i] # NoJob) =>
          \E i \in 1..Len(ex4seen) : ~IsTerminal(ex4seen[i])
====
